---- MODULE Spec2Model ----
(***************************************************************************)
(* A model of crime_dashboard.py: the location-name normaliser, the data   *)
(* derived from the dataset at start-up, and the three Dash callbacks      *)
(* (update_bar_chart, update_time_series, update_map).                     *)
(*                                                                         *)
(* Strings that the normaliser inspects are sequences of one-character     *)
(* strings; a data frame is a sequence of rows (records); a pandas NaN or  *)
(* a null cell is NULL (object columns) or NaN (float columns).             *)
(***************************************************************************)
EXTENDS Integers, Sequences, FiniteSets, TLC

VARIABLES
    merged_df,          \* the dataset snapshot, with its "Common Location" column
    months,             \* sorted unique months
    crime_types,        \* sorted unique crime types
    locations,          \* sorted unique LSOA names
    common_locations,   \* sorted unique common locations
    coords_dict,        \* common location -> (mean latitude, mean longitude)
    lsoa_name,          \* the argument handed to extract_location_name on its own
    response            \* the value the last call returned, not yet consumed

vars == <<merged_df, months, crime_types, locations, common_locations,
          coords_dict, lsoa_name, response>>

NoResponse == [op |-> "none"]

---------------------------------------------------------------------------
(* Bounds of the model.                                                    *)

\* longest argument of extract_location_name checked on its own
MaxLen == 4

---------------------------------------------------------------------------
(* Characters.  Python's \s, \d and [A-Z] for a str pattern.               *)

WhitespaceChars == {" ", "\t", "\n"}

DigitChars == {"0", "1", "2", "3", "4", "5", "6", "7", "8", "9"}

UpperChars == {"A", "B", "C", "D", "E", "F", "G", "H", "I", "J", "K", "L", "M",
               "N", "O", "P", "Q", "R", "S", "T", "U", "V", "W", "X", "Y", "Z"}

IsSpace(c) == c \in WhitespaceChars

IsDigit(c) == c \in DigitChars

IsUpper(c) == c \in UpperChars

\* The last index of the longest run of digits of s that starts at index i
\* (i - 1 when s[i] is no digit): the greedy \d+ .
DigitsEnd(s, i) ==
    CHOOSE j \in (i - 1)..Len(s) :
        /\ \A k \in i..j : IsDigit(s[k])
        /\ (j = Len(s) \/ ~IsDigit(s[j + 1]))

\* The same for the greedy [A-Z]* .
UpperEnd(s, i) ==
    CHOOSE j \in (i - 1)..Len(s) :
        /\ \A k \in i..j : IsUpper(s[k])
        /\ (j = Len(s) \/ ~IsUpper(s[j + 1]))

\* $ without re.MULTILINE: after the last character, or just before a newline
\* that is the last character.  e is the index of the last character matched.
AtEnd(s, e) ==
    \/ e = Len(s)
    \/ e = Len(s) - 1 /\ s[Len(s)] = "\n"

\* A variant of MatchAt for the pattern \d+[A-Z]*$, the whitespace forgotten.
MatchAtNoSpace(s, i) ==
    LET d == DigitsEnd(s, i)
        u == UpperEnd(s, d + 1)
    IN  IF d >= i /\ AtEnd(s, u) THEN u ELSE 0

\* The index of the last character of the match of \s\d+[A-Z]*$ starting at
\* index i of s, or 0 when the pattern does not match there.  Giving back
\* digits or letters never helps the match: the character after a shorter
\* run is a digit or an uppercase letter, which $ rejects.
MatchAt(s, i) ==
    IF ~IsSpace(s[i]) THEN 0
    ELSE LET d == DigitsEnd(s, i + 1)
             u == UpperEnd(s, d + 1)
         IN  IF d >= i + 1 /\ AtEnd(s, u) THEN u ELSE 0

\* re.sub(r"\s\d+[A-Z]*$", "", lsoa_name): the leftmost match is replaced by
\* the empty string.  What is left after a match is empty or one newline, so
\* the scan finds no second match.
extract_location_name(s) ==
    LET starts == {i \in 1..Len(s) : MatchAt(s, i) # 0}
    IN  IF starts = {} THEN s
        ELSE LET i == CHOOSE m \in starts : \A n \in starts : m <= n
             IN  SubSeq(s, 1, i - 1) \o SubSeq(s, MatchAt(s, i) + 1, Len(s))

---------------------------------------------------------------------------
(* The normaliser on its own: arguments of bounded length over an alphabet *)
(* with one character of each class the pattern tells apart.               *)

NormAlphabet == {"a", "A", "1", " ", "\n"}

SeqsUpTo(S, n) == UNION {[1..k -> S] : k \in 0..n}

NormInit ==
    /\ lsoa_name \in SeqsUpTo(NormAlphabet, MaxLen)
    /\ response = NoResponse
    /\ merged_df = <<>>
    /\ months = <<>>
    /\ crime_types = <<>>
    /\ locations = <<>>
    /\ common_locations = <<>>
    /\ coords_dict = <<>>

\* extract_location_name(lsoa_name)
Extract ==
    /\ response' = [op |-> "extract_location_name", arg |-> lsoa_name,
                    ret |-> extract_location_name(lsoa_name), again |-> FALSE]
    /\ UNCHANGED <<merged_df, months, crime_types, locations, common_locations,
                   coords_dict, lsoa_name>>

\* extract_location_name applied to the value it returned
ExtractAgain ==
    /\ response.op = "extract_location_name"
    /\ response' = [op |-> "extract_location_name", arg |-> response.ret,
                    ret |-> extract_location_name(response.ret), again |-> TRUE]
    /\ UNCHANGED <<merged_df, months, crime_types, locations, common_locations,
                   coords_dict, lsoa_name>>

NormNext == Extract \/ ExtractAgain

SpecNorm == NormInit /\ [][NormNext]_vars

---------------------------------------------------------------------------
(* Python's order on str (by code point).  Area names are sequences of     *)
(* characters; months and crime types are atoms with a table of ranks.     *)

DigitSeq == <<"0", "1", "2", "3", "4", "5", "6", "7", "8", "9">>

UpperSeq == <<"A", "B", "C", "D", "E", "F", "G", "H", "I", "J", "K", "L", "M",
              "N", "O", "P", "Q", "R", "S", "T", "U", "V", "W", "X", "Y", "Z">>

Range(f) == {f[i] : i \in DOMAIN f}

Min(a, b) == IF a <= b THEN a ELSE b

\* the sequence f[1], ..., f[n], each element worked out once
RECURSIVE Tuple(_, _)
Tuple(f, n) == IF n = 0 THEN <<>> ELSE Append(Tuple(f, n - 1), f[n])

IndexIn(seq, c) == CHOOSE i \in 1..Len(seq) : seq[i] = c

\* ord(c) for the characters of the model
CodePoint(c) ==
    CASE c = "\t" -> 9
      [] c = "\n" -> 10
      [] c = " " -> 32
      [] c \in DigitChars -> 47 + IndexIn(DigitSeq, c)
      [] c \in UpperChars -> 64 + IndexIn(UpperSeq, c)
      [] c = "a" -> 97
      [] c = "b" -> 98
      [] c = "z" -> 122

\* a < b for two str values
NameLess(a, b) ==
    \E k \in 1..(Len(a) + 1) :
        /\ k <= Len(b)
        /\ \A j \in 1..(k - 1) : a[j] = b[j]
        /\ (k = Len(a) + 1 \/ CodePoint(a[k]) < CodePoint(b[k]))

\* sorted(S) for a set S of area names
RECURSIVE SortedNames(_)
SortedNames(S) ==
    IF S = {} THEN <<>>
    ELSE LET x == CHOOSE y \in S : TRUE
             rest == SortedNames(S \ {x})
             pos == Cardinality({k \in 1..Len(rest) : NameLess(rest[k], x)})
         IN  SubSeq(rest, 1, pos) \o <<x>> \o SubSeq(rest, pos + 1, Len(rest))

\* the position of an atom (a month, a crime type) in Python's order on str
AtomRank(a) ==
    CASE a = "2024-12" -> 1
      [] a = "2025-01" -> 2
      [] a = "2025-02" -> 3
      [] a = "All Crimes" -> 4
      [] a = "Burglary" -> 5
      [] a = "Drugs" -> 6
      [] a = "Theft" -> 7

\* sorted(S) for a set S of months or of crime types
SortedAtoms(S) ==
    Tuple([i \in 1..Cardinality(S) |->
              CHOOSE x \in S :
                  Cardinality({y \in S : AtomRank(y) < AtomRank(x)}) = i - 1],
          Cardinality(S))


---------------------------------------------------------------------------
(* A float is NaN, +inf or an exact fraction in lowest terms with a        *)
(* positive denominator.  The datasets hold no negative number.            *)

RECURSIVE Gcd(_, _)
Gcd(a, b) == IF b = 0 THEN a ELSE Gcd(b, a % b)

NaN == [kind |-> "nan", num |-> 0, den |-> 1]

Inf == [kind |-> "inf", num |-> 0, den |-> 1]

Frac(n, d) == LET g == Gcd(n, d)
              IN  [kind |-> "num", num |-> n \div g, den |-> d \div g]

\* float(n)
F(n) == Frac(n, 1)

\* x < y for two floats: False when either is NaN
FloatLess(x, y) ==
    /\ x.kind # "nan" /\ y.kind # "nan"
    /\ x.kind # "inf"
    /\ (y.kind = "inf" \/ x.num * y.den < y.num * x.den)

\* a null cell of an object column
NULL == "NaN"

\* Series.mean(): the mean of the non-null cells of a float column over the
\* rows whose indices are in idx; NaN when every cell is null.  The cells of
\* the datasets of the model are whole numbers.
RECURSIVE SumCol(_, _, _)
SumCol(df, col, idx) ==
    IF idx = {} THEN 0
    ELSE LET i == CHOOSE j \in idx : TRUE
         IN  df[i][col].num + SumCol(df, col, idx \ {i})

MeanCol(df, col, idx) ==
    LET present == {i \in idx : df[i][col] # NaN}
    IN  IF present = {} THEN NaN
        ELSE Frac(SumCol(df, col, present), Cardinality(present))

---------------------------------------------------------------------------
(* Start-up: lines 16-76.                                                  *)

\* merged_df["Common Location"] = merged_df["LSOA name"].apply(extract_location_name)
WithCommonLocation(df) ==
    Tuple([i \in 1..Len(df) |->
              [CrimeID |-> df[i].CrimeID, Month |-> df[i].Month,
               CrimeType |-> df[i].CrimeType, LSOAName |-> df[i].LSOAName,
               Latitude |-> df[i].Latitude, Longitude |-> df[i].Longitude,
               Density |-> df[i].Density,
               CommonLocation |-> extract_location_name(df[i].LSOAName)]],
          Len(df))

\* df[col].unique() as a set
Unique(df, col) == {df[i][col] : i \in 1..Len(df)}

\* groupby("Common Location")[["Latitude", "Longitude"]].mean().dropna(),
\* then the dictionary built from its rows: each column's mean is taken over
\* the non-null cells of that column, and a location is dropped when either
\* mean is NaN.
BuildCoordsDict(df) ==
    LET mean(loc, col) ==
            MeanCol(df, col, {i \in 1..Len(df) : df[i].CommonLocation = loc})
        kept == {loc \in Unique(df, "CommonLocation") :
                    mean(loc, "Latitude") # NaN /\ mean(loc, "Longitude") # NaN}
    IN  [loc \in kept |-> <<mean(loc, "Latitude"), mean(loc, "Longitude")>>]

color_palette ==
    <<"red", "blue", "green", "purple", "orange", "darkred", "lightred", "beige",
      "darkblue", "darkgreen", "cadetblue", "darkpurple", "pink", "lightblue",
      "lightgreen", "gray", "black", "lightgray">>

\* head(10) of the bar view
TopN == 10

---------------------------------------------------------------------------
(* The datasets of the model: up to MaxRows rows drawn from RowPool, and   *)
(* with them either no further row or TopN + 1 rows of as many areas, so   *)
(* that the ranking has more groups than it returns.                       *)

MaxRows == 2

Row(id, month, crime, name, lat, lon, density) ==
    [CrimeID |-> id, Month |-> month, CrimeType |-> crime, LSOAName |-> name,
     Latitude |-> lat, Longitude |-> lon, Density |-> density]

RowPool ==
    << Row("c", "2025-01", "Burglary", <<"A", " ", "1">>, F(1), F(3), F(10)),
       Row("c", "2025-01", "Burglary", <<"A", " ", "2", "B">>, F(3), NaN, F(10)),
       Row(NULL, "2025-02", "Theft", <<"A", " ", "1">>, NaN, F(5), NaN),
       Row("c", "2025-01", "Theft", <<"A", " ", "1", " ", "2">>, F(3), F(3), NaN),
       Row("c", "2025-02", "Theft", <<"B", " ", "1", "0", "C">>, NaN, NaN, F(5)),
       Row("c", "2025-02", "Burglary", <<"B", " ", "1", "0", "C">>, F(5), F(1), F(0)),
       Row(NULL, "2025-01", "Theft", <<"a", "b">>, NaN, NaN, F(0)),
       Row("c", "2025-02", "Burglary", <<"a", "b">>, F(1), F(1), F(5)) >>

\* the i-th of the further rows: area "C 7", "D 7", ..., one crime each,
\* density i
FillRow(i) ==
    Row("c", "2025-01", "Burglary", <<UpperSeq[i + 2], " ", "7">>, F(i), F(i), F(i))

FillRows(n) == [i \in 1..n |-> FillRow(i)]

\* the non-decreasing sequences of 1..MaxRows indices into RowPool (the order
\* of the rows of a dataset changes no result: every group-by sorts its keys).
\* A dataset has a row: with none, locations[0] of line 341 fails at start-up.
RowChoices ==
    {c \in UNION {[1..k -> 1..Len(RowPool)] : k \in 1..MaxRows} :
        \A i \in 1..(Len(c) - 1) : c[i] <= c[i + 1]}

Datasets ==
    {[i \in 1..Len(c) |-> RowPool[c[i]]] \o FillRows(n) :
        c \in RowChoices, n \in {0, TopN + 1}}

\* The state after the module has been imported with the csv holding raw.
Loaded(raw) ==
    LET df == WithCommonLocation(raw)
    IN  /\ merged_df = df
        /\ months = SortedAtoms(Unique(df, "Month"))
        /\ crime_types = SortedAtoms(Unique(df, "CrimeType"))
        /\ locations = SortedNames(Unique(df, "LSOAName"))
        /\ common_locations = SortedNames(Unique(df, "CommonLocation"))
        /\ coords_dict = BuildCoordsDict(df)

Init ==
    /\ \E raw \in Datasets : Loaded(raw)
    /\ lsoa_name = <<>>
    /\ response = NoResponse

\* the presentation layer takes the response; nothing of it is kept
Render ==
    /\ response # NoResponse
    /\ response' = NoResponse
    /\ UNCHANGED <<merged_df, months, crime_types, locations, common_locations,
                   coords_dict, lsoa_name>>

---------------------------------------------------------------------------
(* update_bar_chart: lines 234-317.                                        *)

\* df[df["Month"] == selected_month], unless the month is "all"
FilterMonth(df, selected_month) ==
    IF selected_month # "all"
    THEN SelectSeq(df, LAMBDA r : r.Month = selected_month)
    ELSE df

\* df[df["Crime type"].isin(selected_crimes)], unless "All Crimes" is selected
FilterCrimes(df, selected_crimes) ==
    IF "All Crimes" \notin Range(selected_crimes)
    THEN SelectSeq(df, LAMBDA r : r.CrimeType \in Range(selected_crimes))
    ELSE df

\* Total Crimes / Population Density * 1000 in float arithmetic: x / NaN and
\* 0 / 0.0 are NaN, x / 0.0 is inf for x > 0
CrimeRate(total, density) ==
    IF density.kind = "nan" THEN NaN
    ELSE IF density.num = 0 THEN (IF total = 0 THEN NaN ELSE Inf)
    ELSE Frac(total * 1000 * density.den, density.num)

\* df.groupby(col).agg({"Crime ID": "count", density: "mean"}).reset_index()
\* with the rate column added: one row per key, in sorted key order; "count"
\* counts the rows of the group whose Crime ID is not null.
GroupAndRate(df, col) ==
    LET keys == SortedNames(Unique(df, col))
        members(key) == {i \in 1..Len(df) : df[i][col] = key}
        total(key) == Cardinality({i \in members(key) : df[i].CrimeID # NULL})
        density(key) == MeanCol(df, "Density", members(key))
    IN  Tuple([k \in 1..Len(keys) |->
                  [Key |-> keys[k], TotalCrimes |-> total(keys[k]),
                   Density |-> density(keys[k]),
                   Rate |-> CrimeRate(total(keys[k]), density(keys[k]))]],
              Len(keys))

\* the cell of a row of grouped in column y_col, as a float
Cell(row, y_col) ==
    IF y_col = "Total Crimes" THEN F(row.TotalCrimes) ELSE row.Rate

\* the two orders in which a sort may leave rows of equal value
TieOrders == {"kept", "reversed"}

\* grouped.sort_values(by=y_col, ascending=ascending): NaN cells last, in
\* their order in grouped (na_position="last"); the other rows by value.
\* The default sort is not stable, so rows of equal value come out in an
\* order the library chooses: ties names the one taken.
SortValues(grouped, y_col, ascending, ties) ==
    LET n == Len(grouped)
        v(i) == Cell(grouped[i], y_col)
        before(j, i) ==
            IF v(j) = NaN \/ v(i) = NaN
            THEN (v(j) # NaN) \/ (v(i) = NaN /\ j < i)
            ELSE IF v(j) # v(i)
            THEN (IF ascending THEN FloatLess(v(j), v(i)) ELSE FloatLess(v(i), v(j)))
            ELSE (IF ties = "kept" THEN j < i ELSE i < j)
        ahead == Tuple([i \in 1..n |->
                           Cardinality({j \in (1..n) \ {i} : before(j, i)})], n)
    IN  Tuple([p \in 1..n |-> grouped[CHOOSE i \in 1..n : ahead[i] = p - 1]], n)

\* .head(n + 1)
HeadRowsOneMore(rows, n) == SubSeq(rows, 1, Min(n + 1, Len(rows)))

\* .head(n)
HeadRows(rows, n) == SubSeq(rows, 1, Min(n, Len(rows)))

\* the values the controls of the bar tab can send
BarMonths == {"all", "2025-01", "2025-02", "2024-12"}

BarCrimeSelections ==
    {<<>>, <<"All Crimes">>, <<"Burglary">>, <<"Burglary", "Theft">>, <<"Drugs">>}

Metrics == {"total", "normalised"}

RankChoices == {"top", "bottom"}

CombineToggles == {<<>>, <<"combine">>}

\* the rows that update_bar_chart groups: steps 1 and 2
BarFiltered(selected_month, selected_crimes) ==
    FilterCrimes(FilterMonth(merged_df, selected_month), selected_crimes)

\* steps 3 and 4
BarGrouped(df, combine_toggle) ==
    IF "combine" \in Range(combine_toggle)
    THEN GroupAndRate(WithCommonLocation(df), "CommonLocation")
    ELSE GroupAndRate(df, "LSOAName")

\* step 6
YCol(selected_metric) ==
    IF selected_metric = "total" THEN "Total Crimes"
    ELSE "Crime Rate (per 1,000 people per km^2)"

\* Each local of the function is bound once, in the order of the code.
update_bar_chart(selected_month, selected_metric, selected_crimes, rank_choice, combine_toggle, ties) ==
    LET combine == "combine" \in Range(combine_toggle)
        y_axis_label == IF combine THEN "Common Location" ELSE "LSOA name"
        ascending == (rank_choice = "bottom")
        y_col == YCol(selected_metric)
    IN  \E df \in {BarFiltered(selected_month, selected_crimes)} :
        \E grouped \in {BarGrouped(df, combine_toggle)} :
        \E sorted \in {SortValues(grouped, y_col, ascending, ties)} :
        \E top_df \in {HeadRows(sorted, TopN)} :
            /\ response' =
                  [op |-> "update_bar_chart",
                   selected_month |-> selected_month,
                   selected_metric |-> selected_metric,
                   selected_crimes |-> selected_crimes,
                   rank_choice |-> rank_choice,
                   combine_toggle |-> combine_toggle,
                   top_df |-> top_df, x |-> y_col, y |-> y_axis_label,
                   title |-> [count |-> Len(top_df),
                              what |-> IF combine THEN "Locations" ELSE "LSOAs",
                              by |-> IF selected_metric = "total" THEN "Total Crimes"
                                     ELSE "Normalised Crime Rate",
                              month |-> IF selected_month = "all" THEN "All Months"
                                        ELSE selected_month,
                              order |-> IF ascending THEN "Lowest" ELSE "Highest"]]
            /\ UNCHANGED <<merged_df, months, crime_types, locations,
                           common_locations, coords_dict, lsoa_name>>

\* a request to the bar tab's callback
BarRequest ==
    /\ response = NoResponse
    /\ \E selected_month \in BarMonths, selected_metric \in Metrics,
          selected_crimes \in BarCrimeSelections, rank_choice \in RankChoices,
          combine_toggle \in CombineToggles, ties \in TieOrders :
            update_bar_chart(selected_month, selected_metric, selected_crimes,
                             rank_choice, combine_toggle, ties)

---------------------------------------------------------------------------
(* update_time_series: lines 379-461.                                      *)

\* the test of line 399 resetting an empty selection only
NeedsRepairEmptyOnly(selected_locations, loc_list) == selected_locations = <<>>

\* the selection-repair condition of line 399, with all() for any()
NeedsRepairAll(selected_locations, loc_list) ==
    \/ selected_locations = <<>>
    \/ \A i \in 1..Len(selected_locations) :
          selected_locations[i] \notin Range(loc_list)

\* not selected_locations or any(loc not in loc_list for loc in selected_locations)
NeedsRepair(selected_locations, loc_list) ==
    \/ selected_locations = <<>>
    \/ \E i \in 1..Len(selected_locations) :
          selected_locations[i] \notin Range(loc_list)

\* the rows of grouped, as a set: one row per group of df_filtered that has a
\* record, with the number of its records (size() counts every row).  The
\* order of the rows (sorted by group key) is not represented.
GroupSizes(df, loc_col, by_crime) ==
    LET key(r) == <<r.Month, r[loc_col], IF by_crime THEN r.CrimeType ELSE "All Crimes">>
    IN  {[Month |-> k[1], Location |-> k[2], CrimeType |-> k[3],
          CrimeCount |-> Cardinality({i \in 1..Len(df) : key(df[i]) = k})] :
            k \in {key(df[i]) : i \in 1..Len(df)}}

\* the rows of df whose column col holds one of values
IsIn(df, col, values) == SelectSeq(df, LAMBDA r : r[col] \in Range(values))

\* Each local of the function is bound once, in the order of the code.
update_time_series(combine_toggle, selected_locations, selected_crimes) ==
    LET combine == "combine" \in Range(combine_toggle)
        loc_col == IF combine THEN "CommonLocation" ELSE "LSOAName"
        loc_label == IF combine THEN "Common Location" ELSE "LSOA name"
        all_crimes == selected_crimes = <<>> \/ "All Crimes" \in Range(selected_crimes)
        multiple_crime_types ==
            ~(\/ selected_crimes = <<>>
              \/ Len(selected_crimes) = 1
              \/ "All Crimes" \in Range(selected_crimes))
    IN  \E df \in {WithCommonLocation(merged_df)} :
        \E loc_list \in {SortedNames(Unique(df, loc_col))} :
        \E repaired \in {IF NeedsRepair(selected_locations, loc_list)
                         THEN <<loc_list[1]>> ELSE selected_locations} :
        \E in_locations \in {IsIn(df, loc_col, repaired)} :
        \E df_filtered \in {IF all_crimes THEN in_locations
                            ELSE IsIn(in_locations, "CrimeType", selected_crimes)} :
            /\ response' =
                  [op |-> "update_time_series",
                   combine_toggle |-> combine_toggle,
                   selected_locations |-> selected_locations,
                   selected_crimes |-> selected_crimes,
                   grouped |-> GroupSizes(df_filtered, loc_col, ~all_crimes),
                   color |-> IF multiple_crime_types THEN "Crime type" ELSE loc_label,
                   line_group |-> IF multiple_crime_types THEN loc_label
                                  ELSE "Crime type",
                   hover_name |-> IF multiple_crime_types THEN loc_label
                                  ELSE "Crime type",
                   options |-> loc_list,
                   value |-> repaired]
            /\ UNCHANGED <<merged_df, months, crime_types, locations,
                           common_locations, coords_dict, lsoa_name>>

\* the values the controls of the time-series tab can send
TsLocationSelections ==
    { <<>>,
      << <<"A", " ", "1">> >>,
      << <<"A">> >>,
      << <<"a", "b">> >>,
      << <<"B", " ", "1", "0", "C">>, <<"A", " ", "1">> >>,
      << <<"B">>, <<"A">> >>,
      << <<"A", " ", "1">>, <<"z", "z">> >>,
      << <<"C">>, <<"A", " ", "1">> >>,
      << <<"D", " ", "7">>, <<"C", " ", "7">>, <<"D", " ", "7">> >> }

TsCrimeSelections ==
    {<<>>, <<"All Crimes">>, <<"Burglary">>, <<"Burglary", "Theft">>,
     <<"Theft", "Theft">>, <<"Theft", "All Crimes">>, <<"Theft", "Drugs">>}

\* a request to the time-series tab's callback
TimeSeriesRequest ==
    /\ response = NoResponse
    /\ \E combine_toggle \in CombineToggles,
          selected_locations \in TsLocationSelections,
          selected_crimes \in TsCrimeSelections :
            update_time_series(combine_toggle, selected_locations, selected_crimes)

\* The value the callback returned for ts-location-dropdown (line 374) is
\* the value of its own input (line 376): the callback runs on it, with the
\* crime selection as it was and the combine toggle as it was or switched.
TimeSeriesFeedback ==
    /\ response.op = "update_time_series"
    /\ \E combine_toggle \in CombineToggles :
            update_time_series(combine_toggle, response.value,
                               response.selected_crimes)

---------------------------------------------------------------------------
(* update_map: lines 494-530.                                              *)

\* the colour of the i-th marker added, for the loop of line 509 counting
\* markers instead of positions
MarkerColorByCount(i, made) == color_palette[(Len(made) % Len(color_palette)) + 1]

\* color_palette[i % len(color_palette)] for the enumerate() index i, which
\* starts at 0; made holds the markers added so far
MarkerColor(i, made) == color_palette[(i % Len(color_palette)) + 1]

\* the loop of lines 509-522 over the first n locations selected: the markers
\* added to the map (and the legend lines, which repeat them), in order
RECURSIVE Markers(_, _)
Markers(selected_locations, n) ==
    IF n = 0 THEN <<>>
    ELSE LET made == Markers(selected_locations, n - 1)
             loc == selected_locations[n]
         IN  IF loc \in DOMAIN coords_dict
             THEN Append(made, [loc |-> loc,
                                lat |-> coords_dict[loc][1],
                                lon |-> coords_dict[loc][2],
                                color |-> MarkerColor(n - 1, made)])
             ELSE made

\* update_map taking each centroid out of the index as it pins it
\* (coords_dict.pop(loc) for the lookup of line 511)
update_map_popping(selected_locations) ==
    /\ response' = [op |-> "update_map",
                    selected_locations |-> selected_locations,
                    markers |-> Markers(selected_locations, Len(selected_locations))]
    /\ coords_dict' = [loc \in DOMAIN coords_dict \ Range(selected_locations) |->
                          coords_dict[loc]]
    /\ UNCHANGED <<merged_df, months, crime_types, locations,
                   common_locations, lsoa_name>>

\* The function reads coords_dict and color_palette and writes neither.
update_map(selected_locations) ==
    /\ response' = [op |-> "update_map",
                    selected_locations |-> selected_locations,
                    markers |-> Markers(selected_locations, Len(selected_locations))]
    /\ UNCHANGED <<merged_df, months, crime_types, locations,
                   common_locations, coords_dict, lsoa_name>>

\* longest selection of the map tab drawn freely from MapNames
MaxSelection == 2

MapNames == << <<"z", "z">>, <<"A">>, <<"B">>, <<"a", "b">>, <<"A", " ", "1">> >>

\* the selections of the model: every selection of up to MaxSelection names,
\* and the selections that go round MapNames for up to one entry more than
\* the palette has colours
MapSelections ==
    SeqsUpTo(Range(MapNames), MaxSelection)
        \cup {[i \in 1..n |-> MapNames[((i - 1) % Len(MapNames)) + 1]] :
                n \in (Len(color_palette) - 1)..(Len(color_palette) + 1)}

\* a request to the map tab's callback
MapRequest ==
    /\ response = NoResponse
    /\ \E selected_locations \in MapSelections : update_map(selected_locations)

---------------------------------------------------------------------------
(* Properties of the normaliser.                                           *)

\* C1: extract_location_name is idempotent: applied to a value it returned,
\* it returns that value unchanged.
C1_Idempotent ==
    (response.op = "extract_location_name" /\ response.again)
        => response.ret = response.arg

\* The strings the claimed pattern (zero or more whitespace, one or more
\* digits, zero or more uppercase letters, at the end) would leave of x.
ClaimedRemainder(x) ==
    LET u == CHOOSE j \in 0..Len(x) :
                 /\ \A k \in (j + 1)..Len(x) : IsUpper(x[k])
                 /\ (j = 0 \/ ~IsUpper(x[j]))
        d == CHOOSE j \in 0..u :
                 /\ \A k \in (j + 1)..u : IsDigit(x[k])
                 /\ (j = 0 \/ ~IsDigit(x[j]))
        w == CHOOSE j \in 0..d :
                 /\ \A k \in (j + 1)..d : IsSpace(x[k])
                 /\ (j = 0 \/ ~IsSpace(x[j]))
    IN  IF d < u THEN SubSeq(x, 1, w) ELSE x

\* C2 as claimed: the suffix is removed whether or not whitespace precedes
\* it, so "001A" gives the empty string and "Prefix001A" gives "Prefix".
C2_OptionalWhitespace ==
    (response.op = "extract_location_name" /\ ~response.again)
        => response.ret = ClaimedRemainder(response.arg)

\* The indices k of x at which a suffix "one whitespace character, one or
\* more digits, zero or more uppercase letters" begins that runs to the end
\* of body, where body is x without its final newline, if it has one.
SuffixStarts(body) ==
    {k \in 1..Len(body) :
        /\ IsSpace(body[k])
        /\ \E d \in (k + 1)..Len(body) :
              /\ \A j \in (k + 1)..d : IsDigit(body[j])
              /\ \A j \in (d + 1)..Len(body) : IsUpper(body[j])}

\* C2 as amended: exactly one trailing suffix made of exactly one whitespace
\* character, one or more digits and zero or more uppercase letters is
\* removed (a final newline after it is kept); without such a suffix the
\* argument is returned unchanged, so digits with no whitespace before them
\* stay.
C2_OneWhitespace ==
    (response.op = "extract_location_name" /\ ~response.again) =>
        LET x == response.arg
            nl == Len(x) > 0 /\ x[Len(x)] = "\n"
            body == IF nl THEN SubSeq(x, 1, Len(x) - 1) ELSE x
            rest == IF nl THEN <<"\n">> ELSE <<>>
        IN  /\ Cardinality(SuffixStarts(body)) <= 1
            /\ SuffixStarts(body) = {} => response.ret = x
            /\ \A k \in SuffixStarts(body) :
                  response.ret = SubSeq(x, 1, k - 1) \o rest

\* A suffix with its whitespace was removed and a prefix is left.
C2_Witness ==
    /\ response.op = "extract_location_name"
    /\ response.arg = <<"a", " ", "1", "A">>
    /\ response.ret = <<"a">>

---------------------------------------------------------------------------
(* Properties of the bar view.                                             *)

IsBar == response.op = "update_bar_chart"

\* a group whose rate the spec calls undefined: mean density absent or zero
UndefinedRate(row) == row.Density = NaN \/ row.Density = F(0)

\* C3: the rate of a group is totalCount / meanDensity * 1000 when the mean
\* density is defined and not zero, and the undefined value (never infinity)
\* when the mean density is absent or zero.
C3_RateUndefinedNotInfinite ==
    IsBar =>
        \A p \in 1..Len(response.top_df) :
            LET row == response.top_df[p]
            IN  IF UndefinedRate(row)
                THEN row.Rate = NaN
                ELSE row.Rate = Frac(row.TotalCrimes * 1000 * row.Density.den,
                                     row.Density.num)

\* C4: ranking by rate, in both directions, every returned row with an
\* undefined rate comes after every returned row with a defined rate, no
\* undefined row is returned while a defined one is left out, and the defined
\* rows are in non-increasing ("top") or non-decreasing ("bottom") order.
C4_UndefinedRatesTrail ==
    (IsBar /\ response.selected_metric = "normalised") =>
        LET top == response.top_df
            grouped == BarGrouped(BarFiltered(response.selected_month,
                                              response.selected_crimes),
                                  response.combine_toggle)
        IN  /\ \A p, q \in 1..Len(top) :
                  (UndefinedRate(top[p]) /\ ~UndefinedRate(top[q])) => q < p
            /\ (\E p \in 1..Len(top) : UndefinedRate(top[p])) =>
                  \A g \in Range(grouped) : ~UndefinedRate(g) => g \in Range(top)
            /\ \A p, q \in 1..Len(top) :
                  (p < q /\ ~UndefinedRate(top[p]) /\ ~UndefinedRate(top[q])) =>
                      IF response.rank_choice = "top"
                      THEN ~FloatLess(top[p].Rate, top[q].Rate)
                      ELSE ~FloatLess(top[q].Rate, top[p].Rate)

\* C5: an empty crime-type selection gives the result of ["All Crimes"], and
\* that result is not empty when the month filter alone keeps records.
C5_EmptySelectionMeansAll ==
    (IsBar /\ response.selected_crimes = <<>>) =>
        /\ \E ties \in TieOrders :
              response.top_df =
                  HeadRows(SortValues(
                      BarGrouped(BarFiltered(response.selected_month, <<"All Crimes">>),
                                 response.combine_toggle),
                      YCol(response.selected_metric),
                      response.rank_choice = "bottom", ties), TopN)
        /\ Len(FilterMonth(merged_df, response.selected_month)) > 0 =>
              Len(response.top_df) > 0

\* the keys of the groups of the records that pass the filters of the request
GroupKeys ==
    {IF "combine" \in Range(response.combine_toggle)
     THEN merged_df[i].CommonLocation ELSE merged_df[i].LSOAName :
        i \in {j \in 1..Len(merged_df) :
                 /\ response.selected_month \in {"all", merged_df[j].Month}
                 /\ \/ "All Crimes" \in Range(response.selected_crimes)
                    \/ merged_df[j].CrimeType \in Range(response.selected_crimes)}}

\* C6: update_bar_chart returns exactly min(10, number of groups of the
\* filtered records) rows, none when the filters remove every record, and
\* the title reports that number.
C6_RowCount ==
    IsBar =>
        /\ Len(response.top_df) = Min(TopN, Cardinality(GroupKeys))
        /\ response.title.count = Len(response.top_df)

\* more groups than the ranking returns
C6_Witness ==
    /\ IsBar
    /\ Cardinality(GroupKeys) > TopN
    /\ Len(response.top_df) = TopN

RECURSIVE SumTotalCrimes(_)
SumTotalCrimes(rows) ==
    IF rows = <<>> THEN 0
    ELSE Head(rows).TotalCrimes + SumTotalCrimes(Tail(rows))

\* C7: the total counts of the groups by common location and of the groups
\* by area name add up to the same number, the number of records of the
\* filtered set.
C7_CountsAddUpToRecords ==
    IsBar =>
        LET df == BarFiltered(response.selected_month, response.selected_crimes)
            byLocation == GroupAndRate(WithCommonLocation(df), "CommonLocation")
            byArea == GroupAndRate(df, "LSOAName")
        IN  /\ SumTotalCrimes(byLocation) = SumTotalCrimes(byArea)
            /\ SumTotalCrimes(byArea) = Len(df)

---------------------------------------------------------------------------
(* Properties of the time-series view.                                     *)

IsTs == response.op = "update_time_series"

\* the values of the grouping dimension the request names
TsValueSet ==
    {IF "combine" \in Range(response.combine_toggle)
     THEN merged_df[i].CommonLocation ELSE merged_df[i].LSOAName :
        i \in 1..Len(merged_df)}

\* seq lists the members of S once each, in increasing order
IsSortedListOf(seq, S) ==
    /\ Range(seq) = S
    /\ \A i, j \in 1..Len(seq) : i < j => NameLess(seq[i], seq[j])

\* C8: an empty selection, or one with a value outside the value set of the
\* active dimension, is replaced by the first value of that set in sorted
\* order; any other selection is returned unchanged; the option list is the
\* sorted value set.
C8_SelectionRepair ==
    IsTs =>
        LET given == response.selected_locations
            valid == given # <<>> /\ Range(given) \subseteq TsValueSet
        IN  /\ IsSortedListOf(response.options, TsValueSet)
            /\ valid => response.value = given
            /\ ~valid =>
                  /\ Len(response.value) = 1
                  /\ response.value[1] \in TsValueSet
                  /\ \A y \in TsValueSet :
                        y = response.value[1] \/ NameLess(response.value[1], y)

\* a selection with one value of the dimension and one outside it is replaced
C8_Witness ==
    /\ IsTs
    /\ Len(response.selected_locations) = 2
    /\ response.selected_locations[1] \in TsValueSet
    /\ response.selected_locations[2] \notin TsValueSet
    /\ response.value = <<response.options[1]>>
    /\ response.value[1] # response.selected_locations[1]

\* C9: crime type is the series dimension and location the sub-group
\* dimension exactly when more than one distinct crime type is selected and
\* the selection is neither empty nor "all"; otherwise location is the series
\* dimension and crime type the sub-group dimension.
C9_SeriesByDistinctCrimeTypes ==
    IsTs =>
        LET chosen == Range(response.selected_crimes)
            several == "All Crimes" \notin chosen /\ Cardinality(chosen) > 1
            location == IF "combine" \in Range(response.combine_toggle)
                        THEN "Common Location" ELSE "LSOA name"
        IN  IF several
            THEN response.color = "Crime type" /\ response.line_group = location
            ELSE response.color = location /\ response.line_group = "Crime type"

\* the step hands the selection just returned back to the callback, with the
\* combine flag it was returned under
FedBack ==
    /\ IsTs
    /\ response'.op = "update_time_series"
    /\ response'.selected_locations = response.value
    /\ response'.combine_toggle = response.combine_toggle

\* C13: the selection loop of the time-series tab is stable: whatever
\* toggles and selections came before, the selection update_time_series
\* returns is non-empty and within the options the same call returns, and
\* a call that gets a returned selection as its input, under the same
\* combine flag, returns that selection unchanged.
C13_SelectionLoopStable ==
    [][/\ response'.op = "update_time_series" =>
              /\ response'.value # <<>>
              /\ Range(response'.value) \subseteq Range(response'.options)
       /\ FedBack => response'.value = response.value]_vars

\* a selection the callback made by repair, no selection of the controls,
\* has come back as its input and has been returned as it came
C13_Witness ==
    /\ IsTs
    /\ response.selected_locations \notin TsLocationSelections
    /\ Len(response.options) > 1
    /\ response.value = response.selected_locations

---------------------------------------------------------------------------
(* Properties of the map view.                                             *)

IsMap == response.op = "update_map"

\* the positions of the selection list whose location has a centroid
Pinned == {i \in 1..Len(response.selected_locations) :
              response.selected_locations[i] \in DOMAIN coords_dict}

\* C10: the markers are one per selected location that is a key of the
\* centroid index, in selection order, none for a location that is not, and
\* the marker of the location at position i (from 0) has colour
\* palette[i mod palette length].
C10_MarkersAndColours ==
    IsMap =>
        /\ Len(response.markers) = Cardinality(Pinned)
        /\ \A i \in Pinned :
              LET k == Cardinality({j \in Pinned : j <= i})
                  loc == response.selected_locations[i]
              IN  response.markers[k] =
                      [loc |-> loc, lat |-> coords_dict[loc][1],
                       lon |-> coords_dict[loc][2],
                       color |-> color_palette[((i - 1) % Len(color_palette)) + 1]]

\* a selection longer than the palette with a location that has no centroid
\* ahead of one that has: the last marker takes the first colour again
C10_Witness ==
    /\ IsMap
    /\ Len(response.selected_locations) = Len(color_palette) + 1
    /\ 1 \notin Pinned
    /\ Len(color_palette) + 1 \in Pinned
    /\ response.markers[Len(response.markers)].color = color_palette[1]

---------------------------------------------------------------------------
(* Properties of the centroid index.                                       *)

\* the records of a common location in which both coordinates are present
BothCoords(loc) ==
    {i \in 1..Len(merged_df) :
        /\ merged_df[i].CommonLocation = loc
        /\ merged_df[i].Latitude # NaN
        /\ merged_df[i].Longitude # NaN}

\* C11: for every common location, the entry of coords_dict is the mean
\* latitude and the mean longitude over exactly the records of the location
\* in which both coordinates are non-null, and the location has no entry
\* when no record of it has both coordinates.
C11_CentroidOfCompleteRecords ==
    \A loc \in Unique(merged_df, "CommonLocation") :
        IF BothCoords(loc) = {}
        THEN loc \notin DOMAIN coords_dict
        ELSE /\ loc \in DOMAIN coords_dict
             /\ coords_dict[loc] =
                    <<MeanCol(merged_df, "Latitude", BothCoords(loc)),
                      MeanCol(merged_df, "Longitude", BothCoords(loc))>>

---------------------------------------------------------------------------
(* Properties of the state the requests share.                             *)

\* the dataset snapshot and the structures derived from it at start-up
SharedState ==
    <<merged_df, months, crime_types, locations, common_locations, coords_dict>>

\* C12: no request mutates shared state: every step of update_bar_chart,
\* update_time_series and update_map, in any order, leaves merged_df (with
\* its Common Location column), coords_dict and the month, crime-type and
\* location lists as they were, so each request is answered from the state
\* of start-up whatever was asked before it.
C12_NoRequestMutatesSharedState == [][SharedState' = SharedState]_vars

\* a ranking by common location of the whole dataset has been served, the
\* request whose column assignment (line 250) lands on the copy of every
\* row, and the shared structures still are those of the load
C12_Witness ==
    /\ IsBar
    /\ response.selected_month = "all"
    /\ "All Crimes" \in Range(response.selected_crimes)
    /\ "combine" \in Range(response.combine_toggle)
    /\ Len(response.top_df) = TopN
    /\ Loaded(merged_df)

---------------------------------------------------------------------------

BarNext == BarRequest \/ Render

SpecBar == Init /\ [][BarNext]_vars

TsNext == TimeSeriesRequest \/ Render

SpecTS == Init /\ [][TsNext]_vars

LoopNext == TimeSeriesRequest \/ TimeSeriesFeedback \/ Render

SpecLoop == Init /\ [][LoopNext]_vars

MapNext == MapRequest \/ Render

SpecMap == Init /\ [][MapNext]_vars

Next == BarRequest \/ TimeSeriesRequest \/ MapRequest \/ Render

Spec == Init /\ [][Next]_vars

====
